---- MODULE Spec2Model ----
(***************************************************************************)
(* Model of helper_edit.py: projection of a six-source electricity mix and *)
(* the metrics derived from it.                                            *)
(*                                                                         *)
(* Number representation.  The program computes in floating point; the     *)
(* model computes in exact integer arithmetic.                             *)
(*   - a percentage p is represented by the integer 20p (unit: 0.05        *)
(*     percent); "100" is the definition Hundred.  Second derivatives are  *)
(*     even numbers of units, so the factor 0.5 of the trend polynomial    *)
(*     is exact;                                                           *)
(*   - years are integers;                                                 *)
(*   - energy is in units of 4*10^4 MWh, so that dirE and the intercept    *)
(*     1.35e10 are the integers 173 and 337500;                            *)
(*   - perc_effective is in tenths of a percent;                           *)
(*   - a quotient is kept as a pair <<numerator, denominator>>.            *)
(* Arrays are 1-indexed: channel c of the model is index c-1 of the code.  *)
(***************************************************************************)
EXTENDS Integers, Sequences, FiniteSets

(***************************************************************************)
(* Bounds of the model                                                     *)
(***************************************************************************)
MaxLen == 3
YearsBefore == 1
YearsAfter == 2

(***************************************************************************)
(* Program constants                                                       *)
(***************************************************************************)
RefYear == 2021
Hundred == 2000
Coal == 1
NG == 2
Solar == 3
Wind == 4
Nuclear == 5
WinterNG == 6
DefaultDirE == 173
EnergyIntercept == 337500
DefaultPercEffective == 835
DefaultRateE == 8
GenWeight == 56
NonGenWeight == 44
Channels == 1..6
Others == Channels \ {NG}

YearSet == (RefYear - YearsBefore)..(RefYear + YearsAfter)

Zeros(n) == [k \in 1..n |-> 0]

(***************************************************************************)
(* get_aYear: np.linspace(start_year, end_year, size), on the grids whose  *)
(* samples are whole years.                                                *)
(***************************************************************************)
Linspace(start_year, end_year, size) ==
    [k \in 1..size |->
        IF size = 1 THEN start_year
        ELSE start_year + ((k - 1) * (end_year - start_year)) \div (size - 1)]

WholeYearGrid(start_year, end_year, size) ==
    IF size = 1 THEN TRUE ELSE (end_year - start_year) % (size - 1) = 0

(***************************************************************************)
(* get_aPercentSources                                                     *)
(***************************************************************************)
\* sec * (0.5 * D^2); exact because second derivatives are even
HalfSquare(sec, D) == (sec * D * D) \div 2

\* a candidate anchored at the first sample of the grid instead of 2021
CandidateFromGridStart(i, aYear, init, der, sec) ==
    [c \in Channels |->
        HalfSquare(sec[c], aYear[i] - aYear[1]) + der[c] * (aYear[i] - aYear[1]) + init[c]]

\* a candidate whose time offset has the wrong sign
CandidateBackwards(i, aYear, init, der, sec) ==
    [c \in Channels |->
        HalfSquare(sec[c], RefYear - aYear[i]) + der[c] * (RefYear - aYear[i]) + init[c]]

\* line 71: the candidate row, a fresh array
Candidate(i, aYear, init, der, sec) ==
    [c \in Channels |->
        HalfSquare(sec[c], aYear[i] - RefYear) + der[c] * (aYear[i] - RefYear) + init[c]]

\* the clamp without its last test (lines 82-83)
ClampNegativeButWinter(P) ==
    [c \in Channels |-> IF c \in Others \ {WinterNG} /\ P[c] < 0 THEN 0 ELSE P[c]]

\* lines 74-83: negative channels are set to zero, NG is skipped
ClampNegative(P) ==
    [c \in Channels |-> IF c \in Others /\ P[c] < 0 THEN 0 ELSE P[c]]

\* the slack without the last modelled channel
SlackWithoutWinter(P) == Hundred - (P[Coal] + P[Solar] + P[Wind] + P[Nuclear])

\* line 87
SlackNG(P) == Hundred - (P[Coal] + P[Solar] + P[Wind] + P[Nuclear] + P[WinterNG])

\* a rejected row always replaced by the initial percentages
StoreRowFallbackOnly(i, M, P, init) ==
    IF SlackNG(P) >= 0
    THEN [M EXCEPT ![i] = [P EXCEPT ![NG] = SlackNG(P)]]
    ELSE [M EXCEPT ![i] = init]

\* an accepted row stored without line 92
StoreRowWithoutSlack(i, M, P, init) ==
    IF SlackNG(P) >= 0
    THEN [M EXCEPT ![i] = P]
    ELSE IF i > 1
         THEN [M EXCEPT ![i] = M[i - 1]]
         ELSE [M EXCEPT ![i] = init]

\* every candidate stored, the test of line 90 left out
StoreRowUnchecked(i, M, P, init) ==
    [M EXCEPT ![i] = [P EXCEPT ![NG] = SlackNG(P)]]

\* lines 90-99: the row stored for sample i, given the matrix so far
StoreRow(i, M, P, init) ==
    IF SlackNG(P) >= 0
    THEN [M EXCEPT ![i] = [P EXCEPT ![NG] = SlackNG(P)]]
    ELSE IF i > 1
         THEN [M EXCEPT ![i] = M[i - 1]]
         ELSE [M EXCEPT ![i] = init]

\* lines 69-99
RECURSIVE PercentLoop(_, _, _, _, _, _)
PercentLoop(i, M, aYear, init, der, sec) ==
    IF i > Len(aYear) THEN M
    ELSE PercentLoop(i + 1,
                     StoreRow(i, M, ClampNegative(Candidate(i, aYear, init, der, sec)), init),
                     aYear, init, der, sec)

\* lines 64-65, 103
get_aPercentSources(aYear, init, der, sec) ==
    PercentLoop(1, [k \in 1..Len(aYear) |-> Zeros(6)], aYear, init, der, sec)

(***************************************************************************)
(* get_aEnergy and the metric projections                                  *)
(***************************************************************************)
Dot(a, b) ==
    a[1] * b[1] + a[2] * b[2] + a[3] * b[3] + a[4] * b[4] + a[5] * b[5] + a[6] * b[6]

RECURSIVE SumSeq(_)
SumSeq(s) == IF Len(s) = 0 THEN 0 ELSE s[1] + SumSeq(Tail(s))

\* line 57
get_aEnergy(aYear, dirE) == [i \in 1..Len(aYear) |-> dirE * aYear[i] - EnergyIntercept]

\* line 110
Energy_2021(dirE) == dirE * RefYear - EnergyIntercept

\* the winterized score derived from the NaturalGas score aRelScores[1]
\* instead of the zero of aReliability[1]
DerivedFromNGScore(perc_effective, aRelScores, aReliability) ==
    ((1000 - perc_effective) * aRelScores[NG]) \div 1000

\* line 112, right-hand side: (1 - perc_effective/100) * aReliability[1], read
\* from the array line 109 has just filled with zeros.  The quotient is exact
\* when the product is a multiple of 1000, as it is for the zero that is read.
DerivedWinterScore(perc_effective, aRelScores, aReliability) ==
    ((1000 - perc_effective) * aReliability[2]) \div 1000

\* line 112: the write goes into the array that was passed
DeriveRelScores(perc_effective, aRelScores, n) ==
    [aRelScores EXCEPT ![WinterNG] = DerivedWinterScore(perc_effective, aRelScores, Zeros(n))]

\* lines 115-119, with the scores as line 112 left them
ReliabilityLoop(aYear, aPercentSources, aEnergy, dirE, scores) ==
    [i \in 1..Len(aYear) |->
        <<aEnergy[i] * Dot(scores, aPercentSources[i]), Energy_2021(dirE)>>]

\* lines 125-131
get_aConstructionCost(aYear, aPercentSources, const_costs, rateE_kW) ==
    [i \in 1..Len(aYear) |-> <<rateE_kW * Dot(aPercentSources[i], const_costs), Hundred>>]

\* lines 136-142
get_aConsumerCost(aYear, aPercentSources, gen_costs, non_gen_costs) ==
    [i \in 1..Len(aYear) |->
        <<GenWeight * Dot(gen_costs, aPercentSources[i])
            + NonGenWeight * Dot(non_gen_costs, aPercentSources[i]), 100>>]

\* lines 146-151
get_aEmissions(aYear, aPercentSources, aEnergy, source_emissions) ==
    [i \in 1..Len(aYear) |-> aEnergy[i] * Dot(source_emissions, aPercentSources[i])]

\* the total with the number of intervals in place of the number of samples
TotalOverIntervals(aYear, aEmissions) ==
    <<SumSeq(aEmissions) * (aYear[Len(aYear)] - aYear[1]), Len(aYear) - 1>>

\* lines 156-159: np.sum(aEmissions) * (delta_t / n)
get_totalEmissions(aYear, aEmissions) ==
    <<SumSeq(aEmissions) * (aYear[Len(aYear)] - aYear[1]), Len(aYear)>>

(***************************************************************************)
(* State.  defaults holds the module-level arrays (lines 15-40), which are *)
(* mutable objects shared by every call; callerArgs holds the arrays a     *)
(* caller passes instead of them.  Years .. ConsmCost are the names bound  *)
(* by the script (lines 168-175), TotalEm the value printed at line 198.   *)
(* args records the scalars and the arrays the calls were given, relStatus *)
(* how get_aReliability ended, lin three further totals over one grid.     *)
(***************************************************************************)
VARIABLES defaults, callerArgs, Years, PercSources, Energy, Emissions, Rel,
          relStatus, ConstCost, ConsmCost, TotalEm, args, lin

vars == <<defaults, callerArgs, Years, PercSources, Energy, Emissions, Rel,
          relStatus, ConstCost, ConsmCost, TotalEm, args, lin>>

metricVars == <<Energy, Emissions, Rel, relStatus, ConstCost, ConsmCost, TotalEm, args, lin>>

\* lines 15, 17, 25, 30, 35, 36, 40, scaled and rounded to integers
Defaults ==
    [initial_percentages |-> <<386, 1072, 18, 350, 174, 0>>,
     derivative_sources  |-> <<-38, 0, 2, 26, -2, 0>>,
     aRelScores          |-> <<-9, -6, 27, -5, -8, 0>>,
     const_costs         |-> <<3500, 895, 2436, 1630, 5945, 899>>,
     gen_costs           |-> <<523, 523, 523, 523, 523, 523>>,
     non_gen_costs       |-> <<851, 218, 593, 397, 1446, 219>>,
     source_emissions    |-> <<1, 1, 0, 0, 0, 1>>]

\* line 166
MainSecDer == <<-10, 0, 20, 0, -20, 2>>

NoArgs ==
    [dirE |-> 0, source_emissions |-> Zeros(6), rel_dirE |-> 0,
     perc_effective |-> 0, rel_override |-> FALSE, rel_passed |-> Zeros(6)]

NoLin == [done |-> FALSE, a |-> 0, b |-> 0, t1 |-> <<>>, t2 |-> <<>>, t12 |-> <<>>]

(***************************************************************************)
(* Inputs of the trajectory specification                                  *)
(***************************************************************************)
ValidMix(p) ==
    /\ \A c \in Channels : p[c] >= 0
    /\ p[1] + p[2] + p[3] + p[4] + p[5] + p[6] = Hundred

InitialChoices ==
    {Defaults.initial_percentages,
     <<1000, 0, 600, 400, 0, 0>>,
     <<200, 600, 0, 400, 400, 400>>}

\* one trend on a modelled channel, and any entry in the NaturalGas slot
TrendVectors(vals, ngvals) ==
    {[c \in Channels |-> IF c = NG THEN g ELSE IF c = ch THEN v ELSE 0] :
        ch \in Others, v \in vals, g \in ngvals}

DerivativeChoices ==
    TrendVectors({-400, 0, 400}, {-400, 0, 400}) \cup {Defaults.derivative_sources}

SecDerivativeChoices ==
    TrendVectors({-400, 0, 400}, {-400, 0}) \cup {MainSecDer}

StrictlyIncreasing(s) == \A k \in 1..(Len(s) - 1) : s[k] < s[k + 1]

CustomGrids ==
    {s \in UNION {[1..n -> YearSet] : n \in 1..MaxLen} : StrictlyIncreasing(s)}

Init ==
    /\ defaults = Defaults
    /\ \E i \in InitialChoices, d \in DerivativeChoices, s \in SecDerivativeChoices :
          callerArgs = [initial_percentages |-> i,
                        derivative_sources |-> d,
                        sec_derivative_sources |-> s,
                        aRelScores |-> Defaults.aRelScores,
                        source_emissions |-> Defaults.source_emissions]
    /\ Years = <<>>
    /\ PercSources = <<>>
    /\ Energy = <<>>
    /\ Emissions = <<>>
    /\ Rel = <<>>
    /\ relStatus = "none"
    /\ ConstCost = <<>>
    /\ ConsmCost = <<>>
    /\ TotalEm = <<>>
    /\ args = NoArgs
    /\ lin = NoLin

\* line 168: Years = get_aYear(start_year, end_year, size)
GetAYear ==
    /\ Years = <<>>
    /\ \E start_year \in YearSet, end_year \in YearSet, size \in 1..MaxLen :
          /\ WholeYearGrid(start_year, end_year, size)
          /\ Years' = Linspace(start_year, end_year, size)
    /\ UNCHANGED <<defaults, callerArgs, PercSources, metricVars>>

\* a caller that builds the time grid itself
CustomGrid ==
    /\ Years = <<>>
    /\ \E g \in CustomGrids : Years' = g
    /\ UNCHANGED <<defaults, callerArgs, PercSources, metricVars>>

\* line 169: PercSources = get_aPercentSources(Years, ...)
GetAPercentSources ==
    /\ Years # <<>>
    /\ PercSources = <<>>
    /\ PercSources' = get_aPercentSources(Years, callerArgs.initial_percentages,
                                          callerArgs.derivative_sources,
                                          callerArgs.sec_derivative_sources)
    /\ UNCHANGED <<defaults, callerArgs, Years, metricVars>>

Next == GetAYear \/ CustomGrid \/ GetAPercentSources

Spec == Init /\ [][Next]_vars

(***************************************************************************)
(* The script (lines 163-198), with every argument it leaves to a default  *)
(* open to an override.                                                    *)
(***************************************************************************)
DirEChoices == {167, DefaultDirE}

PercEffectiveChoices == {0, DefaultPercEffective, 1200}

InitMain ==
    /\ defaults = Defaults
    /\ \E d \in {Defaults.derivative_sources, <<0, 0, 1000, 0, 0, 0>>},
          s \in {Zeros(6), MainSecDer},
          e \in {<<1, 1, 0, 0, 0, 1>>, <<1, -1, 0, 0, 0, 1>>} :
          callerArgs = [initial_percentages |-> Defaults.initial_percentages,
                        derivative_sources |-> d,
                        sec_derivative_sources |-> s,
                        aRelScores |-> <<-9, -6, 27, -5, -8, 7>>,
                        source_emissions |-> e]
    /\ Years = <<>>
    /\ PercSources = <<>>
    /\ Energy = <<>>
    /\ Emissions = <<>>
    /\ Rel = <<>>
    /\ relStatus = "none"
    /\ ConstCost = <<>>
    /\ ConsmCost = <<>>
    /\ TotalEm = <<>>
    /\ args = NoArgs
    /\ lin = NoLin

\* line 171: Energy = get_aEnergy(Years, dirE)
GetAEnergy ==
    /\ PercSources # <<>>
    /\ Energy = <<>>
    /\ \E dirE \in DirEChoices :
          /\ Energy' = get_aEnergy(Years, dirE)
          /\ args' = [args EXCEPT !.dirE = dirE]
    /\ UNCHANGED <<defaults, callerArgs, Years, PercSources, Emissions, Rel,
                   relStatus, ConstCost, ConsmCost, TotalEm, lin>>

\* line 172: Emissions = get_aEmissions(Years, PercSources, Energy, source_emissions)
GetAEmissions ==
    /\ Energy # <<>>
    /\ Emissions = <<>>
    /\ \E coeffs \in {defaults.source_emissions, callerArgs.source_emissions} :
          /\ Emissions' = get_aEmissions(Years, PercSources, Energy, coeffs)
          /\ args' = [args EXCEPT !.source_emissions = coeffs]
    /\ UNCHANGED <<defaults, callerArgs, Years, PercSources, Energy, Rel,
                   relStatus, ConstCost, ConsmCost, TotalEm, lin>>

\* line 173: Rel = get_aReliability(Years, PercSources, Energy, perc_effective,
\* dirE, aRelScores).  aReliability[1] does not exist on a grid of one sample:
\* line 112 raises IndexError before it writes.  The script may call again.
GetAReliability ==
    /\ Emissions # <<>>
    /\ ConstCost = <<>>
    /\ \E perc_effective \in PercEffectiveChoices, dirE \in DirEChoices,
          override \in BOOLEAN :
          LET passed == IF override THEN callerArgs.aRelScores ELSE defaults.aRelScores
              scores == DeriveRelScores(perc_effective, passed, Len(Years))
          IN  /\ args' = [args EXCEPT !.rel_dirE = dirE,
                                      !.perc_effective = perc_effective,
                                      !.rel_override = override,
                                      !.rel_passed = passed]
              /\ IF Len(Years) < 2
                 THEN /\ relStatus' = "IndexError"
                      /\ UNCHANGED <<Rel, defaults, callerArgs>>
                 ELSE /\ relStatus' = "returned"
                      /\ Rel' = ReliabilityLoop(Years, PercSources, Energy, dirE, scores)
                      /\ IF override
                         THEN /\ callerArgs' = [callerArgs EXCEPT !.aRelScores = scores]
                              /\ UNCHANGED defaults
                         ELSE /\ defaults' = [defaults EXCEPT !.aRelScores = scores]
                              /\ UNCHANGED callerArgs
    /\ UNCHANGED <<Years, PercSources, Energy, Emissions, ConstCost, ConsmCost,
                   TotalEm, lin>>

\* line 174: ConstCost = get_aConstructionCost(Years, PercSources)
GetAConstructionCost ==
    /\ relStatus # "none"
    /\ ConstCost = <<>>
    /\ ConstCost' = get_aConstructionCost(Years, PercSources, defaults.const_costs,
                                          DefaultRateE)
    /\ UNCHANGED <<defaults, callerArgs, Years, PercSources, Energy, Emissions, Rel,
                   relStatus, ConsmCost, TotalEm, args, lin>>

\* line 175: ConsmCost = get_aConsumerCost(Years, PercSources)
GetAConsumerCost ==
    /\ ConstCost # <<>>
    /\ ConsmCost = <<>>
    /\ ConsmCost' = get_aConsumerCost(Years, PercSources, defaults.gen_costs,
                                      defaults.non_gen_costs)
    /\ UNCHANGED <<defaults, callerArgs, Years, PercSources, Energy, Emissions, Rel,
                   relStatus, ConstCost, TotalEm, args, lin>>

\* line 198: get_totalEmissions(Years, Emissions)
GetTotalEmissions ==
    /\ ConsmCost # <<>>
    /\ TotalEm = <<>>
    /\ TotalEm' = get_totalEmissions(Years, Emissions)
    /\ UNCHANGED <<defaults, callerArgs, Years, PercSources, Energy, Emissions, Rel,
                   relStatus, ConstCost, ConsmCost, args, lin>>

\* get_totalEmissions over the same grid for two series and a combination of them
Combination(a, S1, b, S2) == [i \in 1..Len(S1) |-> a * S1[i] + b * S2[i]]

TotalsOfCombination ==
    /\ TotalEm # <<>>
    /\ ~lin.done
    /\ \E a \in {-1, 2}, b \in {3} :
          lin' = [done |-> TRUE, a |-> a, b |-> b,
                  t1  |-> get_totalEmissions(Years, Emissions),
                  t2  |-> get_totalEmissions(Years, Energy),
                  t12 |-> get_totalEmissions(Years, Combination(a, Emissions, b, Energy))]
    /\ UNCHANGED <<defaults, callerArgs, Years, PercSources, Energy, Emissions, Rel,
                   relStatus, ConstCost, ConsmCost, TotalEm, args>>

NextMain ==
    \/ GetAYear
    \/ GetAPercentSources
    \/ GetAEnergy
    \/ GetAEmissions
    \/ GetAReliability
    \/ GetAConstructionCost
    \/ GetAConsumerCost
    \/ GetTotalEmissions
    \/ TotalsOfCombination

SpecMain == InitMain /\ [][NextMain]_vars

(***************************************************************************)
(* Properties of the source-mix trajectory (specification Spec)            *)
(***************************************************************************)
MixDone == PercSources # <<>>

Samples == 1..Len(Years)

\* the NaturalGas slack line 87 computes for sample k
SlackAt(k) ==
    SlackNG(ClampNegative(Candidate(k, Years, callerArgs.initial_percentages,
                                    callerArgs.derivative_sources,
                                    callerArgs.sec_derivative_sources)))

Rejected(k) == SlackAt(k) < 0

Max0(x) == IF x < 0 THEN 0 ELSE x

\* max(0, sec*0.5*D^2 + der*D + initial) for channel c at sample k
Trend(c, k) ==
    Max0((callerArgs.sec_derivative_sources[c] * (Years[k] - 2021) * (Years[k] - 2021)) \div 2
         + callerArgs.derivative_sources[c] * (Years[k] - 2021)
         + callerArgs.initial_percentages[c])

\* C1: with initial percentages that are nonnegative and sum to 100, every
\* row of the trajectory sums to 100 and has all six channels >= 0.
C1_RowsAreValidMixes ==
    (MixDone /\ ValidMix(callerArgs.initial_percentages))
        => \A k \in Samples : ValidMix(PercSources[k])

\* a trajectory with a clamped row, a fallback row and a frozen row
C1_Witness ==
    /\ MixDone
    /\ Len(Years) = 3
    /\ Rejected(1)
    /\ ~Rejected(2)
    /\ Rejected(3)
    /\ \E c \in Others :
          Candidate(2, Years, callerArgs.initial_percentages,
                    callerArgs.derivative_sources,
                    callerArgs.sec_derivative_sources)[c] < 0

\* C2: a sample whose slack is negative is rejected: its row is the previous
\* row, or the initial percentages unmodified when it is the first sample.
C2_RejectedRowFreezes ==
    MixDone =>
        \A k \in Samples :
            Rejected(k) =>
                IF k > 1 THEN PercSources[k] = PercSources[k - 1]
                ELSE PercSources[k] = callerArgs.initial_percentages

\* the first sample falls back, the second is accepted with another row, the
\* third is rejected and repeats the second
C2_Witness ==
    /\ MixDone
    /\ Len(Years) = 3
    /\ Rejected(1)
    /\ ~Rejected(2)
    /\ Rejected(3)
    /\ PercSources[2] # callerArgs.initial_percentages
    /\ PercSources[3] = PercSources[2]

\* C3: a sample whose slack is >= 0 gets the clamped trend in channels
\* 0,2,3,4,5 and 100 minus their sum in channel 1, whatever the NaturalGas
\* entries of the inputs are and whatever happened to earlier samples.
C3_AcceptedRowIsClampedTrend ==
    MixDone =>
        \A k \in Samples :
            ~Rejected(k) =>
                PercSources[k] =
                    [c \in Channels |->
                        IF c = 2
                        THEN Hundred - (Trend(1, k) + Trend(3, k) + Trend(4, k)
                                        + Trend(5, k) + Trend(6, k))
                        ELSE Trend(c, k)]

\* an accepted sample right after a rejected one, with NaturalGas entries
\* set in both derivative vectors
C3_Witness ==
    /\ MixDone
    /\ \E k \in Samples : k > 1 /\ Rejected(k - 1) /\ ~Rejected(k)
                          /\ PercSources[k] # PercSources[k - 1]
    /\ callerArgs.derivative_sources[NG] # 0
    /\ callerArgs.sec_derivative_sources[NG] # 0

Declining(c) ==
    /\ callerArgs.derivative_sources[c] < 0
    /\ callerArgs.sec_derivative_sources[c] < 0
    /\ callerArgs.initial_percentages[c] > 0

NonIncreasing(c) ==
    \A k \in 1..(Len(Years) - 1) :
        /\ PercSources[k + 1][c] <= PercSources[k][c]
        /\ PercSources[k][c] = 0 => PercSources[k + 1][c] = 0

\* C5 as stated: on a strictly increasing grid with no rejected sample, any
\* channel with negative derivatives and a positive initial share is
\* non-increasing and stays at zero once it reaches zero.
C5_AsStated ==
    (MixDone /\ StrictlyIncreasing(Years) /\ (\A k \in Samples : ~Rejected(k)))
        => \A c \in Channels : Declining(c) => NonIncreasing(c)

\* C5 amended: the same for the five modelled channels (not the NaturalGas
\* slack) on a grid that does not start before the reference year 2021.
C5_DeclineFromReferenceYear ==
    (MixDone /\ StrictlyIncreasing(Years)
             /\ (\A k \in Samples : ~Rejected(k) /\ Years[k] >= RefYear))
        => \A c \in Others : Declining(c) => NonIncreasing(c)

\* a declining channel that falls, reaches zero and stays there
C5_Witness ==
    /\ MixDone
    /\ StrictlyIncreasing(Years)
    /\ \A k \in Samples : ~Rejected(k) /\ Years[k] >= RefYear
    /\ Len(Years) = 3
    /\ \E c \in Others :
          /\ Declining(c)
          /\ PercSources[1][c] > PercSources[2][c]
          /\ PercSources[2][c] = 0
          /\ PercSources[3][c] = 0

C6_DefaultRunReached ==
    /\ MixDone
    /\ callerArgs.initial_percentages = Defaults.initial_percentages
    /\ callerArgs.derivative_sources = Defaults.derivative_sources
    /\ callerArgs.sec_derivative_sources = MainSecDer
    /\ Years = Linspace(2021, 2021 + YearsAfter, YearsAfter + 1)
    /\ PercSources[1] = Defaults.initial_percentages
    /\ PercSources[2] # Defaults.initial_percentages

(***************************************************************************)
(* Properties of the metric projections (specification SpecMain)           *)
(***************************************************************************)
\* the array get_aReliability was given, as it is now
RelScoresUsed == IF args.rel_override THEN callerArgs.aRelScores ELSE defaults.aRelScores

\* C7: the WinterNaturalGas reliability coefficient get_aReliability derives
\* is 0 for every perc_effective, and the series it returns is
\* (aEnergy[i] / (dirE*2021 - 1.35e10)) * dot(coefficients with slot 5 = 0, row i),
\* whatever perc_effective and the caller's slot-5 coefficient are.
C7_WinterScoreIsZero ==
    relStatus = "returned" =>
        /\ RelScoresUsed[6] = 0
        /\ \A i \in Samples :
              Rel[i] = <<Energy[i] * (args.rel_passed[1] * PercSources[i][1]
                                      + args.rel_passed[2] * PercSources[i][2]
                                      + args.rel_passed[3] * PercSources[i][3]
                                      + args.rel_passed[4] * PercSources[i][4]
                                      + args.rel_passed[5] * PercSources[i][5]),
                         args.rel_dirE * 2021 - EnergyIntercept>>

\* a call with a caller's array whose slot 5 is not 0, a perc_effective other
\* than the default, and a row with a WinterNaturalGas share
C7_Witness ==
    /\ relStatus = "returned"
    /\ args.rel_override
    /\ args.rel_passed[WinterNG] # 0
    /\ args.perc_effective # DefaultPercEffective
    /\ args.rel_dirE # args.dirE
    /\ \E i \in Samples : PercSources[i][WinterNG] > 0 /\ Energy[i] # 0

\* C8: no call changes a parameter vector, neither a module-level default
\* nor an array a caller passed.
C8_ParametersNeverMutated ==
    [][defaults' = defaults /\ callerArgs' = callerArgs]_vars

\* C9: get_totalEmissions is sum(S) * (last - first) / len, and is linear in
\* the series: total(a*S1 + b*S2) = a*total(S1) + b*total(S2).
C9_TotalIsLinear ==
    lin.done =>
        /\ TotalEm = <<SumSeq(Emissions) * (Years[Len(Years)] - Years[1]), Len(Years)>>
        /\ lin.t1 = TotalEm
        /\ lin.t2[2] = Len(Years)
        /\ lin.t12[2] = Len(Years)
        /\ lin.t12[1] = lin.a * lin.t1[1] + lin.b * lin.t2[1]

C9_Witness ==
    /\ lin.done
    /\ lin.a < 0
    /\ Len(Years) = 3
    /\ lin.t1[1] > 0
    /\ lin.t2[1] > 0
    /\ lin.t12[1] # 0

\* C10: with emission coefficients >= 0 and energy samples >= 0, every
\* element of the emissions series, aEnergy[i] * dot(source_emissions, row i),
\* is >= 0, frozen rows included.
C10_EmissionsNonNegative ==
    (/\ Emissions # <<>>
     /\ \A c \in Channels : args.source_emissions[c] >= 0
     /\ \A i \in Samples : Energy[i] >= 0)
        => \A i \in Samples :
              /\ Emissions[i] = Energy[i] * Dot(args.source_emissions, PercSources[i])
              /\ Emissions[i] >= 0

\* an emissions series over a trajectory with a frozen row
C10_Witness ==
    /\ Emissions # <<>>
    /\ \A c \in Channels : args.source_emissions[c] >= 0
    /\ \A i \in Samples : Energy[i] >= 0
    /\ \E k \in Samples : k > 1 /\ Rejected(k) /\ Emissions[k] > 0

====
